---- MODULE Spec2Model ----
(***************************************************************************)
(* Model of checkupgrades' database-ingestion code:                        *)
(*   src/src/alpm.rs  DescIter, SyncPkg::from_desc, SyncPkg::read_one_db   *)
(*   src/src/sync.rs  download_to_disk, download_dbs                       *)
(* Text is a sequence of one-character strings; bytes are small numbers.   *)
(***************************************************************************)
EXTENDS Integers, Sequences, FiniteSets, TLC

VARIABLES
    desc,      \* the desc text handed to DescIter / from_desc, and how it was built
    parsed,    \* what DescIter and from_desc returned for desc
    map,       \* read_one_db: the pkgname -> SyncPkg index
    loaded,    \* read_one_db: the archives read so far, in load order (history)
    dbres,     \* read_one_db: the latest call's file header, decoder and result
    inserted,  \* read_one_db: the entry paths that caused a map.insert (history)
    pc,        \* download_to_disk: each task's position
    file,      \* the cache file <repo>.db of each source
    server,    \* what each source's server answers to the one request it gets
    wbuf,      \* the BufWriter's unflushed bytes of each task
    data,      \* the download branch's inner `data` vector of each task
    result,    \* each task's return value
    dpc,       \* download_dbs: its position
    doneq,     \* the JoinSet's completed tasks, in completion order
    dbs,       \* download_dbs: the collected (repo, data) pairs
    ret,       \* download_dbs: its return value
    localdb,   \* local_package_size: the queried name and the local directory
    lsize,     \* local_package_size: its return value
    good       \* per source, the complete contents its cache file was given (history)

vars == <<desc, parsed, map, loaded, dbres, inserted,
          pc, file, server, wbuf, data, result, dpc, doneq, dbs, ret,
          localdb, lsize, good>>

descVars == <<desc, parsed>>
dbVars == <<map, loaded, dbres, inserted>>
syncVars == <<pc, file, server, wbuf, data, result, dpc, doneq, dbs, ret, good>>
localVars == <<localdb, lsize>>

None == "None"

\* Option<T>: None is the empty sequence, Some(x) the one-element sequence
NoneOpt == <<>>
Some(x) == <<x>>

(***************************************************************************)
(* Characters and the tags the builders match on.                          *)
(***************************************************************************)
NL == "\n"
PCT == "%"

NAME == <<"N", "A", "M", "E">>
VERSION == <<"V", "E", "R", "S", "I", "O", "N">>
CSIZE == <<"C", "S", "I", "Z", "E">>
ISIZE == <<"I", "S", "I", "Z", "E">>
SIZE == <<"S", "I", "Z", "E">>

Digits == <<"0", "1", "2", "3", "4", "5", "6", "7", "8", "9">>
IsDigit(c) == \E i \in 1..10 : Digits[i] = c
DigitVal(c) == (CHOOSE i \in 1..10 : Digits[i] = c) - 1

(***************************************************************************)
(* DescIter: the regex                                                     *)
(*     ^%(?<tag>[^%]+)%$\n (?s)(?<value>.*?)(?-s)$\n ^$\n      (flags mx)  *)
(* iterated over the text by captures_iter: leftmost match first, the next *)
(* search starting where the previous match ended.                         *)
(***************************************************************************)

\* `^` in multi-line mode: the start of the text or just after a newline
LineStart(t, s) == s = 1 \/ (s > 1 /\ s - 1 <= Len(t) /\ t[s - 1] = NL)

\* the position of the first "%" at or after position i, 0 when there is none
RECURSIVE NextPct(_, _)
NextPct(t, i) ==
    IF i > Len(t) THEN 0
    ELSE IF t[i] = PCT THEN i
    ELSE NextPct(t, i + 1)

\* `(?s).*?` followed by `$\n^$\n`: the first position q >= p holding two newlines
\* in a row, 0 when there is none
RECURSIVE ValueEnd(_, _)
ValueEnd(t, q) ==
    IF q + 1 > Len(t) THEN 0
    ELSE IF t[q] = NL /\ t[q + 1] = NL THEN q
    ELSE ValueEnd(t, q + 1)

\* one attempt of the regex at position s: [ok, tag, value, next]
MatchAt(t, s) ==
    LET e == NextPct(t, s + 1)
        q == ValueEnd(t, e + 2)
    IN  IF /\ s <= Len(t)
           /\ LineStart(t, s)
           /\ t[s] = PCT
           /\ e > s + 1                       \* [^%]+ is not empty
           /\ e + 1 <= Len(t) /\ t[e + 1] = NL   \* %$\n
           /\ q > 0
        THEN [ok |-> TRUE, tag |-> SubSeq(t, s + 1, e - 1),
              value |-> SubSeq(t, e + 2, q - 1), next |-> q + 2]
        ELSE [ok |-> FALSE]

RECURSIVE CaptureMatches(_, _)
CaptureMatches(t, s) ==
    IF s > Len(t) THEN <<>>
    ELSE LET m == MatchAt(t, s)
         IN  IF m.ok
             THEN <<[tag |-> m.tag, value |-> m.value]>> \o CaptureMatches(t, m.next)
             ELSE CaptureMatches(t, s + 1)

\* DescIter::new(desc) collected: the (tag, value) pairs in the order next() yields them
DescIter(t) == CaptureMatches(t, 1)

(***************************************************************************)
(* str::parse::<u64>(): an optional "+", then one or more ASCII digits,    *)
(* no overflow past u64::MAX. The value is kept as its decimal digits      *)
(* without leading zeros, so that the full 64-bit range is represented.    *)
(***************************************************************************)
U64MaxDigits ==
    <<"1", "8", "4", "4", "6", "7", "4", "4", "0", "7",
      "3", "7", "0", "9", "5", "5", "1", "6", "1", "5">>

RECURSIVE StripZeros(_)
StripZeros(d) ==
    IF Len(d) > 1 /\ d[1] = "0" THEN StripZeros(Tail(d)) ELSE d

\* d > e for two digit strings of the same length
RECURSIVE DigitsGreater(_, _)
DigitsGreater(d, e) ==
    IF d = <<>> THEN FALSE
    ELSE IF DigitVal(d[1]) # DigitVal(e[1]) THEN DigitVal(d[1]) > DigitVal(e[1])
    ELSE DigitsGreater(Tail(d), Tail(e))

ParseU64(v) ==
    LET body == IF Len(v) > 0 /\ v[1] = "+" THEN Tail(v) ELSE v
        canon == StripZeros(body)
    IN  IF /\ Len(body) > 0
           /\ \A i \in 1..Len(body) : IsDigit(body[i])
           /\ Len(canon) <= Len(U64MaxDigits)
           /\ ~(Len(canon) = Len(U64MaxDigits) /\ DigitsGreater(canon, U64MaxDigits))
        THEN [ok |-> TRUE, val |-> canon]
        ELSE [ok |-> FALSE]

(***************************************************************************)
(* SyncPkg::from_desc                                                      *)
(***************************************************************************)
Err(msg) == [ok |-> FALSE, err |-> msg]

\* the for loop keeping the first value a tag was given
RECURSIVE SyncPkgFoldKeepFirst(_, _, _)
SyncPkgFoldKeepFirst(ps, i, acc) ==
    IF i > Len(ps) THEN acc
    ELSE LET tag == ps[i].tag
             value == ps[i].value
             n == ParseU64(value)
             Keep(old, new) == IF old = NoneOpt THEN Some(new) ELSE old
         IN  IF tag = NAME
             THEN SyncPkgFoldKeepFirst(ps, i + 1,
                      [acc EXCEPT !.name = Keep(@, value)])
             ELSE IF tag = VERSION
             THEN SyncPkgFoldKeepFirst(ps, i + 1,
                      [acc EXCEPT !.version = Keep(@, value)])
             ELSE IF tag = CSIZE
             THEN IF n.ok
                  THEN SyncPkgFoldKeepFirst(ps, i + 1,
                           [acc EXCEPT !.download_size = Keep(@, n.val)])
                  ELSE Err("failed to parse package csize as an integer")
             ELSE IF tag = ISIZE
             THEN IF n.ok
                  THEN SyncPkgFoldKeepFirst(ps, i + 1,
                           [acc EXCEPT !.install_size = Keep(@, n.val)])
                  ELSE Err("failed to parse package isize as an integer")
             ELSE SyncPkgFoldKeepFirst(ps, i + 1, acc)

\* the for loop over DescIter: `acc` holds name, version, download_size, install_size
RECURSIVE SyncPkgFold(_, _, _)
SyncPkgFold(ps, i, acc) ==
    IF i > Len(ps) THEN acc
    ELSE LET tag == ps[i].tag
             value == ps[i].value
             n == ParseU64(value)
         IN  IF tag = NAME THEN SyncPkgFold(ps, i + 1, [acc EXCEPT !.name = Some(value)])
             ELSE IF tag = VERSION
             THEN SyncPkgFold(ps, i + 1, [acc EXCEPT !.version = Some(value)])
             ELSE IF tag = CSIZE
             THEN IF n.ok
                  THEN SyncPkgFold(ps, i + 1, [acc EXCEPT !.download_size = Some(n.val)])
                  ELSE Err("failed to parse package csize as an integer")
             ELSE IF tag = ISIZE
             THEN IF n.ok
                  THEN SyncPkgFold(ps, i + 1, [acc EXCEPT !.install_size = Some(n.val)])
                  ELSE Err("failed to parse package isize as an integer")
             ELSE SyncPkgFold(ps, i + 1, acc)

\* SyncPkg::from_desc with the version check left out
SyncPkgFromDescVersionOptional(t) ==
    LET acc == SyncPkgFold(DescIter(t), 1,
                   [ok |-> TRUE, name |-> NoneOpt, version |-> NoneOpt,
                    download_size |-> NoneOpt, install_size |-> NoneOpt])
    IN  IF ~acc.ok THEN acc
        ELSE IF acc.name = NoneOpt THEN Err("missing package name in desc")
        ELSE IF acc.download_size = NoneOpt
        THEN Err("missing package download size in desc")
        ELSE IF acc.install_size = NoneOpt
        THEN Err("missing package install size in desc")
        ELSE [ok |-> TRUE, name |-> acc.name[1],
              version |-> IF acc.version = NoneOpt THEN <<>> ELSE acc.version[1],
              repo |-> [variant |-> "Unknown"], download_size |-> acc.download_size[1],
              install_size |-> acc.install_size[1]]

\* SyncPkg::from_desc looking for the sizes before the version
SyncPkgFromDescSizeFirst(t) ==
    LET acc == SyncPkgFold(DescIter(t), 1,
                   [ok |-> TRUE, name |-> NoneOpt, version |-> NoneOpt,
                    download_size |-> NoneOpt, install_size |-> NoneOpt])
    IN  IF ~acc.ok THEN acc
        ELSE IF acc.name = NoneOpt THEN Err("missing package name in desc")
        ELSE IF acc.download_size = NoneOpt
        THEN Err("missing package download size in desc")
        ELSE IF acc.install_size = NoneOpt
        THEN Err("missing package install size in desc")
        ELSE IF acc.version = NoneOpt THEN Err("missing package version in desc")
        ELSE [ok |-> TRUE, name |-> acc.name[1], version |-> acc.version[1],
              repo |-> [variant |-> "Unknown"], download_size |-> acc.download_size[1],
              install_size |-> acc.install_size[1]]

SyncPkgFromDesc(t) ==
    LET acc == SyncPkgFold(DescIter(t), 1,
                   [ok |-> TRUE, name |-> NoneOpt, version |-> NoneOpt,
                    download_size |-> NoneOpt, install_size |-> NoneOpt])
    IN  IF ~acc.ok THEN acc
        ELSE IF acc.name = NoneOpt THEN Err("missing package name in desc")
        ELSE IF acc.version = NoneOpt THEN Err("missing package version in desc")
        ELSE IF acc.download_size = NoneOpt
        THEN Err("missing package download size in desc")
        ELSE IF acc.install_size = NoneOpt
        THEN Err("missing package install size in desc")
        ELSE [ok |-> TRUE, name |-> acc.name[1], version |-> acc.version[1],
              repo |-> [variant |-> "Unknown"], download_size |-> acc.download_size[1],
              install_size |-> acc.install_size[1]]

(***************************************************************************)
(* LocalPkg::from_desc                                                     *)
(***************************************************************************)

\* the for loop over DescIter: `acc` holds name, version, size
RECURSIVE LocalPkgFold(_, _, _)
LocalPkgFold(ps, i, acc) ==
    IF i > Len(ps) THEN acc
    ELSE LET tag == ps[i].tag
             value == ps[i].value
             n == ParseU64(value)
         IN  IF tag = NAME THEN LocalPkgFold(ps, i + 1, [acc EXCEPT !.name = Some(value)])
             ELSE IF tag = VERSION
             THEN LocalPkgFold(ps, i + 1, [acc EXCEPT !.version = Some(value)])
             ELSE IF tag = SIZE
             THEN IF n.ok
                  THEN LocalPkgFold(ps, i + 1, [acc EXCEPT !.size = Some(n.val)])
                  ELSE Err("failed to parse package size as an integer")
             ELSE LocalPkgFold(ps, i + 1, acc)

LocalPkgFromDesc(t) ==
    LET acc == LocalPkgFold(DescIter(t), 1,
                   [ok |-> TRUE, name |-> NoneOpt, version |-> NoneOpt, size |-> NoneOpt])
    IN  IF ~acc.ok THEN acc
        ELSE IF acc.name = NoneOpt THEN Err("missing package name in desc")
        ELSE IF acc.version = NoneOpt THEN Err("missing package version in desc")
        ELSE IF acc.size = NoneOpt THEN Err("missing package size in desc")
        ELSE [ok |-> TRUE, name |-> acc.name[1], version |-> acc.version[1],
              size |-> acc.size[1]]

(***************************************************************************)
(* local_package_size                                                      *)
(***************************************************************************)

\* str::starts_with
StartsWith(s, prefix) ==
    Len(s) >= Len(prefix) /\ SubSeq(s, 1, Len(prefix)) = prefix

\* the inner loop over DescIter, from pair j on, leaving the loop at a NAME
\* that differs and returning at the first SIZE: [kind, found, res]
RECURSIVE ScanDesc(_, _, _, _)
ScanDesc(ps, j, pkgname, found) ==
    IF j > Len(ps) THEN [kind |-> "next", found |-> found]
    ELSE IF ps[j].tag = NAME
    THEN IF ps[j].value = pkgname
         THEN ScanDesc(ps, j + 1, pkgname, TRUE)
         ELSE [kind |-> "next", found |-> found]
    ELSE IF ps[j].tag = SIZE
    THEN [kind |-> "return", found |-> found,
          res |-> LET n == ParseU64(ps[j].value)
                  IN  IF n.ok THEN [ok |-> TRUE, size |-> n.val]
                      ELSE Err("unable to parse package size number")]
    ELSE ScanDesc(ps, j + 1, pkgname, found)

\* the loop over the directory entries, from entry i on
RECURSIVE SizeLoop(_, _, _, _)
SizeLoop(dirents, i, pkgname, found_pkg) ==
    IF i > Len(dirents)
    THEN IF found_pkg THEN [ok |-> TRUE, size |-> <<"0">>]
         ELSE Err("no local package named pkgname found")
    ELSE LET entry == dirents[i]
         IN  IF ~entry.is_dir THEN SizeLoop(dirents, i + 1, pkgname, found_pkg)
             ELSE IF ~StartsWith(entry.name, pkgname)
             THEN SizeLoop(dirents, i + 1, pkgname, found_pkg)
             ELSE IF entry.desc = NoneOpt THEN Err("failed to open desc")
             ELSE LET scan == ScanDesc(DescIter(entry.desc[1]), 1, pkgname, found_pkg)
                  IN  IF scan.kind = "return" THEN scan.res
                      ELSE SizeLoop(dirents, i + 1, pkgname, scan.found)

LocalPackageSize(db, pkgname) ==
    IF ~db.readable THEN Err("failed to read directory")
    ELSE SizeLoop(db.dirents, 1, pkgname, FALSE)

(***************************************************************************)
(* The desc texts the parser is run on: every text over a small alphabet,  *)
(* every record of a few (tag, value) pairs written in the tag/value       *)
(* grammar (tag line, value lines, blank line), and a record holding every *)
(* tag of the builders with a few more pairs before or after it.           *)
(***************************************************************************)
MaxTextLen == 7
MaxPairs == 4
MaxExtra == 1

Alphabet == {PCT, NL, "a"}

RECURSIVE SeqsUpTo(_, _)
SeqsUpTo(S, n) ==
    IF n = 0 THEN {<<>>}
    ELSE LET shorter == SeqsUpTo(S, n - 1)
         IN  shorter \cup {Append(q, x) : q \in {r \in shorter : Len(r) = n - 1}, x \in S}

PairChoices ==
    {[tag |-> NAME, value |-> v] : v \in {<<"f", "o", "o">>, <<"b", "a", "r">>}}
    \cup {[tag |-> VERSION, value |-> <<"1", ".", "2", "-", "3">>]}
    \cup {[tag |-> CSIZE, value |-> v] : v \in {<<"7">>, <<"x">>, <<>>}}
    \cup {[tag |-> ISIZE, value |-> v] :
             v \in {<<"0", "9">>, U64MaxDigits, Append(U64MaxDigits, "0")}}
    \cup {[tag |-> SIZE, value |-> <<"5">>]}
    \cup {[tag |-> <<"D", "E", "S", "C">>, value |-> <<"a", NL, "b">>]}

EncodePair(p) ==
    <<PCT>> \o p.tag \o <<PCT, NL>>
    \o (IF p.value = <<>> THEN <<>> ELSE p.value \o <<NL>>)
    \o <<NL>>

RECURSIVE Encode(_)
Encode(ps) ==
    IF ps = <<>> THEN <<>> ELSE EncodePair(Head(ps)) \o Encode(Tail(ps))

\* a record with every tag the two builders read, once each
FullRecord ==
    <<[tag |-> NAME, value |-> <<"f", "o", "o">>],
      [tag |-> VERSION, value |-> <<"1", ".", "2", "-", "3">>],
      [tag |-> CSIZE, value |-> <<"7">>],
      [tag |-> ISIZE, value |-> <<"0", "9">>],
      [tag |-> SIZE, value |-> <<"5">>]>>

\* the inputs, computed when the parser's specification starts
DescInputs(alphabet, choices) ==
    {[kind |-> "raw", pairs |-> <<>>, text |-> t] : t \in SeqsUpTo(alphabet, MaxTextLen)}
    \cup {[kind |-> "enc", pairs |-> ps, text |-> Encode(ps)] :
             ps \in SeqsUpTo(choices, MaxPairs)}
    \cup {[kind |-> "enc", pairs |-> ps, text |-> Encode(ps)] :
             ps \in UNION {{extra \o FullRecord, FullRecord \o extra} :
                              extra \in SeqsUpTo(choices, MaxExtra)}}

InitDesc ==
    /\ desc \in DescInputs(Alphabet, PairChoices)
    /\ parsed = [op |-> None]

IdleDesc ==
    /\ desc = [kind |-> "raw", pairs |-> <<>>, text |-> <<>>]
    /\ parsed = [op |-> None]

\* the caller collects the iterator (as read_desc_file does)
CollectDescIter ==
    /\ parsed.op = None
    /\ parsed' = [op |-> "DescIter", out |-> DescIter(desc.text)]
    /\ UNCHANGED <<desc, dbVars, syncVars, localVars>>

CallSyncPkgFromDesc ==
    /\ parsed.op = None
    /\ parsed' = [op |-> "SyncPkg::from_desc", out |-> SyncPkgFromDesc(desc.text)]
    /\ UNCHANGED <<desc, dbVars, syncVars, localVars>>

CallLocalPkgFromDesc ==
    /\ parsed.op = None
    /\ parsed' = [op |-> "LocalPkg::from_desc", out |-> LocalPkgFromDesc(desc.text)]
    /\ UNCHANGED <<desc, dbVars, syncVars, localVars>>

NextDesc == CollectDescIter \/ CallSyncPkgFromDesc \/ CallLocalPkgFromDesc

(***************************************************************************)
(* Repo::from(&str)                                                        *)
(***************************************************************************)
RepoFrom(s) ==
    IF s = "core" THEN [variant |-> "Core"]
    ELSE IF s = "extra" THEN [variant |-> "Extra"]
    ELSE IF s = "community" THEN [variant |-> "Community"]
    ELSE IF s = "multilib" THEN [variant |-> "Multilib"]
    ELSE IF s = "" THEN [variant |-> "Unknown"]
    ELSE [variant |-> "Custom", name |-> s]

(***************************************************************************)
(* The archives read_one_db is run on. An archive is <stem>.db holding tar *)
(* entries; an entry has a type, a path (its components) and its data.     *)
(***************************************************************************)
MaxEntries == 3

DESC == <<"d", "e", "s", "c">>
FILES == <<"f", "i", "l", "e", "s">>
Foo == <<"f", "o", "o">>
FooBar == <<"f", "o", "o", "-", "b", "a", "r">>
NoDash == <<"n", "o", "d", "a", "s", "h">>

DescOf(name, csize, isize) ==
    Encode(<<[tag |-> NAME, value |-> name],
             [tag |-> VERSION, value |-> <<"1">>],
             [tag |-> CSIZE, value |-> csize],
             [tag |-> ISIZE, value |-> isize]>>)

EntryTable ==
    << [etype |-> "file", path |-> <<Foo \o <<"-", "1", ".", "2", "-", "3">>, DESC>>,
       text |-> DescOf(Foo, <<"1", "0", "0">>, <<"1", "1", "0">>)],
      [etype |-> "file", path |-> <<Foo \o <<"-", "1", ".", "3", "-", "1">>, DESC>>,
       text |-> DescOf(Foo, <<"2", "0", "0">>, <<"2", "2", "0">>)],
      [etype |-> "file", path |-> <<FooBar \o <<"-", "1", ".", "2", "-", "3">>, DESC>>,
       text |-> DescOf(FooBar, <<"5">>, <<"6">>)],
      [etype |-> "file", path |-> <<NoDash, DESC>>,
       text |-> DescOf(NoDash, <<"7">>, <<"8">>)],
      [etype |-> "file", path |-> <<<<"o", "n", "e", "-", "d", "a", "s", "h">>, DESC>>,
       text |-> Encode(<<[tag |-> NAME, value |-> <<"o", "n", "e">>]>>)],
      [etype |-> "file", path |-> <<<<"b", "a", "d", "-", "1", "-", "1">>, DESC>>,
       text |-> DescOf(<<"b", "a", "d">>, <<"x">>, <<"1">>)],
      [etype |-> "file", path |-> <<Foo \o <<"-", "1", ".", "2", "-", "3">>, FILES>>,
       text |-> DescOf(Foo, <<"9">>, <<"9">>)],
      [etype |-> "dir", path |-> <<Foo \o <<"-", "1", ".", "2", "-", "3">>>>,
       text |-> <<>>] >>

\* an archive is held as the sequence of its entries' indices in EntryTable
EntryChoices == DOMAIN EntryTable

\* the *.db files of the sync directory: a standard repo and a custom one
DbStems == {"core", "awild"}

\* SyncPkg::from_desc(&desc_buf) of each entry's data, worked out once per entry
EntryPkg == [i \in EntryChoices |-> SyncPkgFromDesc(EntryTable[i].text)]

\* Path::file_name(): the last component
FileName(path) == path[Len(path)]

\* the test of the loop body: a regular file named exactly `desc`
IsDescFile(entry) == entry.etype = "file" /\ FileName(entry.path) = DESC

\* HashMap::insert keeping the entry already there
MapInsertKeepFirst(m, k, v) ==
    [x \in (DOMAIN m) \cup {k} |-> IF x \in DOMAIN m THEN m[x] ELSE v]

\* HashMap::insert
MapInsert(m, k, v) == [x \in (DOMAIN m) \cup {k} |-> IF x = k THEN v ELSE m[x]]

\* the loop going on after a parse failure and reporting it at the end
RECURSIVE ReadEntriesPastFailure(_, _, _, _, _)
ReadEntriesPastFailure(m, ins, entries, i, repo) ==
    IF i > Len(entries) THEN [map |-> m, inserted |-> ins, res |-> [ok |-> TRUE]]
    ELSE LET entry == EntryTable[entries[i]]
             pkg == EntryPkg[entries[i]]
             rest == ReadEntriesPastFailure(m, ins, entries, i + 1, repo)
         IN  IF ~IsDescFile(entry) THEN rest
             ELSE IF ~pkg.ok
             THEN [map |-> rest.map, inserted |-> rest.inserted,
                   res |-> [ok |-> FALSE, err |-> "failed to parse",
                            path |-> entry.path, cause |-> pkg.err]]
             ELSE ReadEntriesPastFailure(
                      MapInsert(m, pkg.name, [pkg EXCEPT !.repo = repo]),
                      ins \cup {entry.path}, entries, i + 1, repo)

\* the loop over tarball.entries(), from entry i on: [map, inserted, res]
RECURSIVE ReadEntries(_, _, _, _, _)
ReadEntries(m, ins, entries, i, repo) ==
    IF i > Len(entries) THEN [map |-> m, inserted |-> ins, res |-> [ok |-> TRUE]]
    ELSE LET entry == EntryTable[entries[i]]
             pkg == EntryPkg[entries[i]]
         IN  IF ~IsDescFile(entry) THEN ReadEntries(m, ins, entries, i + 1, repo)
             ELSE IF ~pkg.ok
             THEN [map |-> m, inserted |-> ins,
                   res |-> [ok |-> FALSE, err |-> "failed to parse",
                            path |-> entry.path, cause |-> pkg.err]]
             ELSE ReadEntries(MapInsert(m, pkg.name, [pkg EXCEPT !.repo = repo]),
                              ins \cup {entry.path}, entries, i + 1, repo)

InitDb ==
    /\ map = <<>>
    /\ loaded = <<>>
    /\ dbres = [op |-> None, ok |-> TRUE]
    /\ inserted = {}

EntriesLoaded ==
    IF loaded = <<>> THEN 0
    ELSE LET RECURSIVE Sum(_)
             Sum(i) == IF i = 0 THEN 0 ELSE Len(loaded[i].entries) + Sum(i - 1)
         IN  Sum(Len(loaded))

\* the length of the `magic` buffer
MagicLen == 4
ZSTD_MAGIC == <<40, 181, 47, 253>>
GZIP_MAGIC == <<31, 139>>

\* the leading bytes of an empty tar stream and of one whose first entry's path
\* starts with a letter
EmptyTarHead == <<0, 0, 0, 0>>
TarHead == <<102, 111, 111, 45>>

\* the leading bytes of the files read_one_db may meet holding `entries`: a zstd
\* frame, a gzip member, a plain tar stream and, with nothing in them, files
\* shorter than the magic buffer
HeadChoices(entries) ==
    {ZSTD_MAGIC, GZIP_MAGIC \o <<8, 0>>, IF entries = <<>> THEN EmptyTarHead ELSE TarHead}
    \cup (IF entries = <<>>
          THEN {<<>>, GZIP_MAGIC, SubSeq(ZSTD_MAGIC, 1, 3)}
          ELSE {})

\* db_file.read_exact(&mut magic): the first MagicLen bytes, an error on a
\* shorter file
ReadExact(head) ==
    IF Len(head) < MagicLen THEN Err("failed to read file header")
    ELSE [ok |-> TRUE, magic |-> SubSeq(head, 1, MagicLen)]

\* the `Dynamic decompressor` chosen from the magic bytes
SelectDecoder(magic) ==
    IF magic = ZSTD_MAGIC THEN "zstd"
    ELSE IF SubSeq(magic, 1, 2) = GZIP_MAGIC THEN "gzip"
    ELSE "none"

\* SyncPkg::read_one_db(map, <stem>.db), called once per *.db file of the sync
\* directory as load_sync_dbs does, which stops at the first error. The file
\* starts with the bytes `head`; after the rewind the chosen decoder hands the
\* tar entries to the loop.
ReadOneDb(stem, head, entries) ==
    /\ dbres.ok
    /\ \A i \in 1..Len(loaded) : loaded[i].stem # stem
    /\ Len(entries) + EntriesLoaded <= MaxEntries
    /\ LET hdr == ReadExact(head)
           r == ReadEntries(map, inserted, entries, 1, RepoFrom(stem))
       IN  IF ~hdr.ok
           THEN /\ dbres' = [op |-> "read_one_db", head |-> head, decoder |-> None] @@ hdr
                /\ UNCHANGED <<map, inserted, loaded>>
           ELSE /\ map' = r.map
                /\ inserted' = r.inserted
                /\ dbres' = [op |-> "read_one_db", head |-> head,
                             decoder |-> SelectDecoder(hdr.magic)] @@ r.res
                /\ loaded' = Append(loaded, [stem |-> stem, entries |-> entries])
    /\ UNCHANGED <<descVars, syncVars, localVars>>

NextDb ==
    LET room == MaxEntries - EntriesLoaded
    IN  \E stem \in DbStems, entries \in SeqsUpTo(EntryChoices, room) :
            \E head \in HeadChoices(entries) : ReadOneDb(stem, head, entries)

(***************************************************************************)
(* The local databases local_package_size is run on: <db_path>/local with  *)
(* a few entries, in the order read_dir hands them out.                    *)
(***************************************************************************)
MaxDirs == 3

LocalDesc(name, size) ==
    Encode(<<[tag |-> NAME, value |-> name],
             [tag |-> VERSION, value |-> <<"1">>],
             [tag |-> SIZE, value |-> size]>>)

\* a desc that states its SIZE before its NAME
SizeFirstDesc(name, size) ==
    Encode(<<[tag |-> SIZE, value |-> size],
             [tag |-> NAME, value |-> name],
             [tag |-> VERSION, value |-> <<"1">>]>>)

DirTable ==
    << [is_dir |-> TRUE, name |-> Foo \o <<"-", "1", "-", "1">>,
        desc |-> Some(LocalDesc(Foo, <<"5">>))],
       [is_dir |-> TRUE, name |-> Foo \o <<"-", "2", "-", "1">>,
        desc |-> Some(Encode(<<[tag |-> NAME, value |-> Foo],
                               [tag |-> VERSION, value |-> <<"2">>]>>))],
       [is_dir |-> TRUE, name |-> Foo \o <<"-", "3", "-", "1">>,
        desc |-> Some(SizeFirstDesc(Foo, <<"6">>))],
       [is_dir |-> TRUE, name |-> Foo \o <<"-", "4", "-", "1">>,
        desc |-> Some(LocalDesc(Foo, <<"x">>))],
       [is_dir |-> TRUE, name |-> FooBar \o <<"-", "1", "-", "1">>,
        desc |-> Some(LocalDesc(FooBar, <<"7">>))],
       [is_dir |-> TRUE, name |-> FooBar \o <<"-", "2", "-", "1">>,
        desc |-> Some(SizeFirstDesc(FooBar, <<"8">>))],
       [is_dir |-> TRUE, name |-> NoDash \o <<"-", "1", "-", "1">>,
        desc |-> Some(LocalDesc(NoDash, <<"9">>))],
       [is_dir |-> TRUE, name |-> Foo \o <<"-", "5", "-", "1">>, desc |-> NoneOpt],
       [is_dir |-> FALSE, name |-> Foo \o <<"-", "6", "-", "1">>, desc |-> NoneOpt] >>

DirChoices == {DirTable[i] : i \in DOMAIN DirTable}

PkgNames == {Foo, FooBar}

InitLocal ==
    /\ localdb \in
           {[pkgname |-> n, readable |-> TRUE, dirents |-> ds] :
                n \in PkgNames, ds \in SeqsUpTo(DirChoices, MaxDirs)}
           \cup {[pkgname |-> n, readable |-> FALSE, dirents |-> <<>>] : n \in PkgNames}
    /\ lsize = [op |-> None]

IdleLocal ==
    /\ localdb = [pkgname |-> <<>>, readable |-> FALSE, dirents |-> <<>>]
    /\ lsize = [op |-> None]

CallLocalPackageSize ==
    /\ lsize.op = None
    /\ lsize' = [op |-> "local_package_size",
                 out |-> LocalPackageSize(localdb, localdb.pkgname)]
    /\ UNCHANGED <<localdb, descVars, dbVars, syncVars>>

NextLocal == CallLocalPackageSize

(***************************************************************************)
(* sync.rs: download_dbs spawns one download_to_disk task per SYNC_DBS     *)
(* entry on a JoinSet. A task moves from one .await to the next in one     *)
(* step. Times are whole seconds.                                          *)
(***************************************************************************)
MaxChunks == 2

SYNC_DBS == <<"core", "extra", "awild">>
Sources == {SYNC_DBS[i] : i \in DOMAIN SYNC_DBS}

\* the cache file an earlier run left for source r, and the time of this run's writes
CachedContent(r) == <<CHOOSE i \in DOMAIN SYNC_DBS : SYNC_DBS[i] = r>>
CachedMtime == 1
Now == 2
\* the time a Last-Modified header names
LastModified == 3

NoFile == [kind |-> "absent", content |-> <<>>, mtime |-> 0]
CachedFile(r) == [kind |-> "file", content |-> CachedContent(r), mtime |-> CachedMtime]

FileChoices(r) ==
    {NoFile, CachedFile(r), [kind |-> "dir", content |-> <<>>, mtime |-> CachedMtime]}

\* the statuses a server may answer with: success, a 3xx that is not followed,
\* not modified, client error, server error
StatusChoices == {200, 300, 304, 404, 503}

\* a body arrives as chunks; chunk k of source r is the byte 10 * (r's index) + k
Body(r, n) == [k \in 1..n |-> 10 * CachedContent(r)[1] + k]

Unreachable == [status |-> 0, body |-> <<>>, last_modified |-> "absent"]

\* what a server may do: not answer, or answer with a status, a body of up to
\* MaxChunks chunks and a Last-Modified header that is absent, not an HTTP date,
\* a date, or a date before 1970 ("old_date")
ServerChoices(r) ==
    {Unreachable}
    \cup {[status |-> st, body |-> Body(r, n), last_modified |-> lm] :
             st \in StatusChoices, n \in 0..MaxChunks,
             lm \in {"absent", "garbage", "date", "old_date"}}

\* the plain cases: an unchanged cached file, and a source that is gone
PlainChoices(r) ==
    {<<CachedFile(r), [status |-> 304, body |-> <<>>, last_modified |-> "absent"]>>,
     <<NoFile, [status |-> 404, body |-> <<>>, last_modified |-> "absent"]>>}

\* StatusCode::is_client_error() || is_server_error(), the test of error_for_status
IsErrorStatus(status) == status >= 400 /\ status <= 599

NOT_MODIFIED == 304

\* parse_http_timestamp: a date parses to its time; for a date before 1970
\* dt.timestamp() is negative and `.try_into().unwrap()` to u64 panics; anything
\* else is a parse error
ParseHttpTimestamp(h) ==
    IF h = "date" THEN [st |-> "Ok", time |-> LastModified]
    ELSE IF h = "old_date" THEN [st |-> "Panic"]
    ELSE [st |-> "Err"]

PlainEnvs ==
    {e \in [Sources -> UNION {PlainChoices(r) : r \in Sources}] :
         \A r \in Sources : e[r] \in PlainChoices(r)}

\* One source meets any cache file and any server; the other two meet the plain
\* cases.
SyncEnvs ==
    UNION {{[p EXCEPT ![any] = <<f, sv>>] :
               p \in PlainEnvs, f \in FileChoices(any), sv \in ServerChoices(any)} :
           any \in Sources}

InitSync ==
    /\ pc = [r \in Sources |-> "unspawned"]
    /\ \E e \in SyncEnvs :
           /\ file = [r \in Sources |-> e[r][1]]
           /\ server = [r \in Sources |-> e[r][2]]
    /\ wbuf = [r \in Sources |-> <<>>]
    /\ data = [r \in Sources |-> <<>>]
    /\ result = [r \in Sources |-> [st |-> None]]
    /\ dpc = "start"
    /\ doneq = <<>>
    /\ dbs = <<>>
    /\ ret = [st |-> None]

\* the task returns `res`: the JoinSet holds its output until join_next takes it
Finish(r, res) ==
    /\ pc' = [pc EXCEPT ![r] = "done"]
    /\ result' = [result EXCEPT ![r] = res]
    /\ doneq' = Append(doneq, r)
    /\ wbuf' = [wbuf EXCEPT ![r] = <<>>]
    /\ data' = [data EXCEPT ![r] = <<>>]

TaskOk(bytes) == [st |-> "Ok", data |-> bytes]
TaskErr(msg) == [st |-> "Err", err |-> msg]
\* the task panicked: join_next hands out a JoinError
TaskPanic == [st |-> "Panic"]

\* fs::metadata(&file_path).await, the is_file check and the request's header
Metadata(r) ==
    /\ pc[r] = "metadata"
    /\ IF file[r].kind = "dir"
       THEN Finish(r, TaskErr("exists but is not a file"))
       ELSE /\ pc' = [pc EXCEPT ![r] = "send"]
            /\ UNCHANGED <<result, doneq, wbuf, data>>
    /\ UNCHANGED <<file, server, dpc, dbs, ret, descVars, dbVars, localVars, good>>

\* the response once req.send() has returned it
Resp(r) == server[r]

\* req.send().await, error_for_status(), and the branch on the status up to its
\* first .await
Send(r) ==
    /\ pc[r] = "send"
    /\ IF server[r] = Unreachable
       THEN Finish(r, TaskErr("Failed to send request"))
       ELSE IF IsErrorStatus(Resp(r).status)
       THEN Finish(r, TaskErr("returned an error"))
       ELSE /\ pc' = [pc EXCEPT ![r] =
                         IF Resp(r).status = NOT_MODIFIED THEN "open" ELSE "create"]
            /\ UNCHANGED <<result, doneq, wbuf, data>>
    /\ UNCHANGED <<file, server, dpc, dbs, ret, descVars, dbVars, localVars, good>>

\* 304: File::open(&file_path).await
Open(r) ==
    /\ pc[r] = "open"
    /\ IF file[r].kind = "file"
       THEN /\ pc' = [pc EXCEPT ![r] = "read"]
            /\ UNCHANGED <<result, doneq, wbuf, data>>
       ELSE Finish(r, TaskErr("failed to open for reading"))
    /\ UNCHANGED <<file, server, dpc, dbs, ret, descVars, dbVars, localVars, good>>

\* 304: the read going into a vector that shadows the outer `data`
ReadToEndShadowed(r) ==
    /\ pc[r] = "read"
    /\ Finish(r, TaskOk(<<>>))
    /\ UNCHANGED <<file, server, dpc, dbs, ret, descVars, dbVars, localVars, good>>

\* 304: read_to_end(&mut data).await into the outer `data`, then Ok(data)
ReadToEnd(r) ==
    /\ pc[r] = "read"
    /\ Finish(r, TaskOk(file[r].content))
    /\ UNCHANGED <<file, server, dpc, dbs, ret, descVars, dbVars, localVars, good>>

\* download: File::create(&file_path).await creates or truncates the file
Create(r) ==
    /\ pc[r] = "create"
    /\ file' = [file EXCEPT ![r] = [kind |-> "file", content |-> <<>>, mtime |-> Now]]
    /\ pc' = [pc EXCEPT ![r] = "chunk"]
    /\ UNCHANGED <<server, wbuf, data, result, doneq, dpc, dbs, ret, descVars, dbVars, localVars, good>>

\* the chunks of the body not yet handed out by resp.chunk()
ChunksRead(r) == Len(data[r])

\* download: resp.chunk().await, and data.extend_from_slice(&chunk) on the inner
\* `data` that shadows the outer one
Chunk(r) ==
    /\ pc[r] = "chunk"
    /\ \/ Finish(r, TaskErr("failed to read data"))
       \/ /\ ChunksRead(r) < Len(Resp(r).body)
          /\ data' = [data EXCEPT ![r] = Append(@, Resp(r).body[ChunksRead(r) + 1])]
          /\ pc' = [pc EXCEPT ![r] = "write"]
          /\ UNCHANGED <<result, doneq, wbuf>>
       \/ /\ ChunksRead(r) = Len(Resp(r).body)
          /\ pc' = [pc EXCEPT ![r] = "flush"]
          /\ UNCHANGED <<result, doneq, wbuf, data>>
    /\ UNCHANGED <<file, server, dpc, dbs, ret, descVars, dbVars, localVars, good>>

\* download: file.write_all(&chunk).await on the BufWriter, which keeps the chunk
\* in its buffer, or first writes its buffer out, or also writes the chunk through,
\* as the sizes have it; a write to the file may fail
WriteAll(r) ==
    /\ pc[r] = "write"
    /\ LET chunk == <<data[r][Len(data[r])]>>
       IN  \/ /\ wbuf' = [wbuf EXCEPT ![r] = @ \o chunk]
              /\ pc' = [pc EXCEPT ![r] = "chunk"]
              /\ UNCHANGED <<file, result, doneq, data>>
           \/ /\ file' = [file EXCEPT ![r].content = @ \o wbuf[r], ![r].mtime = Now]
              /\ wbuf' = [wbuf EXCEPT ![r] = chunk]
              /\ pc' = [pc EXCEPT ![r] = "chunk"]
              /\ UNCHANGED <<result, doneq, data>>
           \/ /\ file' = [file EXCEPT ![r].content = @ \o wbuf[r] \o chunk,
                                      ![r].mtime = Now]
              /\ wbuf' = [wbuf EXCEPT ![r] = <<>>]
              /\ pc' = [pc EXCEPT ![r] = "chunk"]
              /\ UNCHANGED <<result, doneq, data>>
           \/ /\ Finish(r, TaskErr("failed writing"))
              /\ UNCHANGED file
    /\ UNCHANGED <<server, dpc, dbs, ret, descVars, dbVars, localVars, good>>

\* `maybe_mtime`: the Last-Modified header, when there is one, parsed
MaybeMtime(r) ==
    IF Resp(r).last_modified = "absent" THEN [st |-> "Err"]
    ELSE ParseHttpTimestamp(Resp(r).last_modified)

\* download: file.flush().await, then the Last-Modified header; without a date
\* the function returns the outer `data`, which the download branch never filled
Flush(r) ==
    /\ pc[r] = "flush"
    /\ \/ /\ Finish(r, TaskErr("flush failed"))
          /\ UNCHANGED file
       \/ /\ file' = [file EXCEPT ![r].content = @ \o wbuf[r], ![r].mtime = Now]
          /\ IF MaybeMtime(r).st = "Ok"
             THEN /\ pc' = [pc EXCEPT ![r] = "into_std"]
                  /\ wbuf' = [wbuf EXCEPT ![r] = <<>>]
                  /\ UNCHANGED <<result, doneq, data>>
             ELSE IF MaybeMtime(r).st = "Panic"
             THEN Finish(r, TaskPanic)
             ELSE Finish(r, TaskOk(<<>>))
    /\ UNCHANGED <<server, dpc, dbs, ret, descVars, dbVars, localVars, good>>

\* download: file.into_inner().into_std().await, then spawn_blocking queues the
\* closure
IntoStd(r) ==
    /\ pc[r] = "into_std"
    /\ pc' = [pc EXCEPT ![r] = "set_mtime"]
    /\ UNCHANGED <<file, server, wbuf, data, result, doneq, dpc, dbs, ret,
                   descVars, dbVars, localVars, good>>

\* the blocking closure: set_modified(mtime) and sync_all(), failures only logged;
\* the awaiting task then returns the outer `data`. The closure also runs when the
\* task was aborted while awaiting it ("detached").
SetMtime(r) ==
    /\ pc[r] \in {"set_mtime", "detached"}
    /\ \E set_ok \in BOOLEAN :
           file' = [file EXCEPT ![r].mtime =
                       IF set_ok THEN MaybeMtime(r).time
                       ELSE @]
    /\ IF pc[r] = "set_mtime"
       THEN Finish(r, TaskOk(<<>>))
       ELSE /\ pc' = [pc EXCEPT ![r] = "aborted"]
            /\ UNCHANGED <<result, doneq, wbuf, data>>
    /\ UNCHANGED <<server, dpc, dbs, ret, descVars, dbVars, localVars, good>>

(***************************************************************************)
(* download_dbs                                                            *)
(***************************************************************************)

\* fs::metadata(sync_dir).await and the is_dir check
CheckSyncDir ==
    /\ dpc = "start"
    /\ \E is_dir \in BOOLEAN :
           IF is_dir
           THEN dpc' = "spawn" /\ UNCHANGED ret
           ELSE /\ dpc' = "returned"
                /\ ret' = [st |-> "Err", err |-> "sync db path is not a directory"]
    /\ UNCHANGED <<pc, file, server, wbuf, data, result, doneq, dbs, descVars, dbVars, localVars, good>>

\* one turn of the loop over SYNC_DBS: tasks.spawn(download_to_disk(..))
Spawn ==
    /\ dpc = "spawn"
    /\ LET i == CHOOSE k \in DOMAIN SYNC_DBS :
                    /\ pc[SYNC_DBS[k]] = "unspawned"
                    /\ \A j \in 1..(k - 1) : pc[SYNC_DBS[j]] # "unspawned"
       IN  /\ pc' = [pc EXCEPT ![SYNC_DBS[i]] = "metadata"]
           /\ dpc' = IF i = Len(SYNC_DBS) THEN "join" ELSE "spawn"
    /\ UNCHANGED <<file, server, wbuf, data, result, doneq, dbs, ret, descVars, dbVars, localVars, good>>

\* dropping the JoinSet aborts every task that has not finished
AbortAll(p) ==
    [r \in Sources |->
        IF p[r] \in {"done", "aborted", "detached"} THEN p[r]
        ELSE IF p[r] = "set_mtime" THEN "detached"
        ELSE "aborted"]

\* join_next's outputs paired with the repos in the order of SYNC_DBS instead of
\* with the repo the task itself returns
JoinNextInRequestOrder ==
    /\ dpc = "join"
    /\ doneq # <<>>
    /\ LET r == Head(doneq)
       IN  /\ doneq' = Tail(doneq)
           /\ IF result[r].st = "Panic"
              THEN /\ ret' = [st |-> "Panic", repo |-> r, err |-> "download thread panic'd"]
                   /\ dpc' = "returned"
                   /\ pc' = AbortAll(pc)
                   /\ UNCHANGED dbs
              ELSE IF result[r].st = "Err"
              THEN /\ ret' = [st |-> "Err", repo |-> r, err |-> result[r].err]
                   /\ dpc' = "returned"
                   /\ pc' = AbortAll(pc)
                   /\ UNCHANGED dbs
              ELSE /\ dbs' = Append(dbs, [repo |-> RepoFrom(SYNC_DBS[Len(dbs) + 1]),
                                          data |-> result[r].data])
                   /\ IF Len(dbs') = Len(SYNC_DBS)
                      THEN ret' = [st |-> "Ok", dbs |-> dbs'] /\ dpc' = "returned"
                      ELSE UNCHANGED <<ret, dpc>>
                   /\ UNCHANGED pc
    /\ UNCHANGED <<file, server, wbuf, data, result, descVars, dbVars, localVars, good>>

\* one turn of `while let Some(join_res) = tasks.join_next().await`: the next
\* finished task's output; a panicked task makes `expect` panic, an Err returns
\* at once through `?`, and both drop the JoinSet; after the last task the loop
\* ends and Ok(dbs) is returned
JoinNext ==
    /\ dpc = "join"
    /\ doneq # <<>>
    /\ LET r == Head(doneq)
       IN  /\ doneq' = Tail(doneq)
           /\ IF result[r].st = "Panic"
              THEN /\ ret' = [st |-> "Panic", repo |-> r, err |-> "download thread panic'd"]
                   /\ dpc' = "returned"
                   /\ pc' = AbortAll(pc)
                   /\ UNCHANGED dbs
              ELSE IF result[r].st = "Err"
              THEN /\ ret' = [st |-> "Err", repo |-> r, err |-> result[r].err]
                   /\ dpc' = "returned"
                   /\ pc' = AbortAll(pc)
                   /\ UNCHANGED dbs
              ELSE /\ dbs' = Append(dbs, [repo |-> RepoFrom(r), data |-> result[r].data])
                   /\ IF Len(dbs') = Len(SYNC_DBS)
                      THEN ret' = [st |-> "Ok", dbs |-> dbs'] /\ dpc' = "returned"
                      ELSE UNCHANGED <<ret, dpc>>
                   /\ UNCHANGED pc
    /\ UNCHANGED <<file, server, wbuf, data, result, descVars, dbVars, localVars, good>>

DownloadToDisk(r) ==
    \/ Metadata(r) \/ Send(r) \/ Open(r) \/ ReadToEnd(r) \/ Create(r)
    \/ Chunk(r) \/ WriteAll(r) \/ Flush(r) \/ IntoStd(r) \/ SetMtime(r)

NextSync ==
    \/ CheckSyncDir
    \/ Spawn
    \/ JoinNext
    \/ \E r \in Sources : DownloadToDisk(r)

(***************************************************************************)
(* One source's cache file over successive runs of the program: the task   *)
(* of the first SYNC_DBS entry is run, and run again on the file the run   *)
(* before left behind, against whatever the server then answers. A run     *)
(* ends when the task returns or when it is dropped at an .await (the      *)
(* JoinSet is dropped on a sibling's failure, or the process ends).        *)
(***************************************************************************)
CacheSource == SYNC_DBS[1]

InitCache ==
    /\ pc = [r \in Sources |-> IF r = CacheSource THEN "metadata" ELSE "unspawned"]
    /\ \E f \in FileChoices(CacheSource), sv \in ServerChoices(CacheSource) :
           /\ file = [r \in Sources |-> IF r = CacheSource THEN f ELSE NoFile]
           /\ server = [r \in Sources |-> IF r = CacheSource THEN sv ELSE Unreachable]
           /\ good = [r \in Sources |->
                         IF r = CacheSource /\ f.kind = "file" THEN {f.content} ELSE {}]
    /\ wbuf = [r \in Sources |-> <<>>]
    /\ data = [r \in Sources |-> <<>>]
    /\ result = [r \in Sources |-> [st |-> None]]
    /\ dpc = "join"
    /\ doneq = <<>>
    /\ dbs = <<>>
    /\ ret = [st |-> None]

\* the task of source r downloaded the whole body and returned Ok
DownloadedAll(r) ==
    /\ pc[r] = "done"
    /\ result[r].st = "Ok"
    /\ server[r] # Unreachable
    /\ Resp(r).status # NOT_MODIFIED

\* the next run of the program starts the task of source r again: the file is
\* what the last run left, the BufWriter's unflushed bytes are gone, the server
\* answers afresh
RunAgain(r) ==
    /\ pc[r] \notin {"unspawned", "set_mtime"}
    /\ pc' = [pc EXCEPT ![r] = "metadata"]
    /\ \E sv \in ServerChoices(r) : server' = [server EXCEPT ![r] = sv]
    /\ good' = [good EXCEPT ![r] = IF DownloadedAll(r) THEN @ \cup {Resp(r).body} ELSE @]
    /\ wbuf' = [wbuf EXCEPT ![r] = <<>>]
    /\ data' = [data EXCEPT ![r] = <<>>]
    /\ result' = [result EXCEPT ![r] = [st |-> None]]
    /\ doneq' = <<>>
    /\ UNCHANGED <<file, dpc, dbs, ret, descVars, dbVars, localVars>>

NextCache == DownloadToDisk(CacheSource) \/ RunAgain(CacheSource)

(***************************************************************************)
(* The specifications. Each one runs one part of the program and leaves    *)
(* the other parts' variables at rest.                                     *)
(***************************************************************************)
IdleDb ==
    /\ map = <<>>
    /\ loaded = <<>>
    /\ dbres = [op |-> None, ok |-> TRUE]
    /\ inserted = {}

IdleCache == good = <<>>

IdleSync ==
    /\ IdleCache
    /\ pc = <<>>
    /\ file = <<>>
    /\ server = <<>>
    /\ wbuf = <<>>
    /\ data = <<>>
    /\ result = <<>>
    /\ dpc = None
    /\ doneq = <<>>
    /\ dbs = <<>>
    /\ ret = [st |-> None]

InitSpecDesc == InitDesc /\ IdleDb /\ IdleSync /\ IdleLocal

SpecDesc == InitSpecDesc /\ [][NextDesc]_vars

InitSpecDb == InitDb /\ IdleDesc /\ IdleSync /\ IdleLocal

SpecDb == InitSpecDb /\ [][NextDb]_vars

InitSpecSync == InitSync /\ IdleCache /\ IdleDesc /\ IdleDb /\ IdleLocal

SpecSync == InitSpecSync /\ [][NextSync]_vars

InitSpecLocal == InitLocal /\ IdleDesc /\ IdleDb /\ IdleSync

SpecLocal == InitSpecLocal /\ [][NextLocal]_vars

InitSpecCache == InitCache /\ IdleDesc /\ IdleDb /\ IdleLocal

SpecCache == InitSpecCache /\ [][NextCache]_vars

(***************************************************************************)
(* The tag/value grammar as the documentation states it, line by line: a   *)
(* tag line is a whole line %TAG% (TAG one or more characters other than   *)
(* %), its value the lines after it up to the first blank line.            *)
(***************************************************************************)

\* the position of the newline ending the line that starts at i, 0 when unterminated
RECURSIVE LineEnd(_, _)
LineEnd(t, i) ==
    IF i > Len(t) THEN 0
    ELSE IF t[i] = NL THEN i
    ELSE LineEnd(t, i + 1)

\* the line t[i..e-1] is %TAG%
IsTagLine(t, i, e) ==
    /\ e - i >= 3
    /\ t[i] = PCT
    /\ t[e - 1] = PCT
    /\ \A k \in (i + 1)..(e - 2) : t[k] # PCT

\* the start of the first blank line among the lines starting at i, 0 when none
RECURSIVE BlankLine(_, _)
BlankLine(t, i) ==
    LET e == LineEnd(t, i)
    IN  IF e = 0 THEN 0
        ELSE IF e = i THEN i
        ELSE BlankLine(t, e + 1)

RECURSIVE TagLinePairs(_, _)
TagLinePairs(t, i) ==
    LET e == LineEnd(t, i)
        b == BlankLine(t, e + 1)
    IN  IF e = 0 THEN <<>>
        ELSE IF ~IsTagLine(t, i, e) THEN TagLinePairs(t, e + 1)
        ELSE IF b = 0 THEN <<>>
        ELSE <<[tag |-> SubSeq(t, i + 1, e - 2), value |-> SubSeq(t, e + 1, b - 2)]>>
             \o TagLinePairs(t, b + 1)

\* C8: DescIter yields, in document order, one (tag, value) pair per tag line
\* %TAG% standing on a line by itself, the value being the lines that follow up to
\* the first blank line without their last newline, for values of zero lines too.
C8_PairPerTagLine ==
    parsed.op = "DescIter" => parsed.out = TagLinePairs(desc.text, 1)

\* a tag of the round trip: not empty, no % and no newline
RoundTripTag(tag) ==
    /\ tag # <<>>
    /\ \A i \in 1..Len(tag) : tag[i] \notin {PCT, NL}

\* a value of the round trip: empty, or lines none of which is blank
RoundTripValue(v) ==
    \/ v = <<>>
    \/ /\ v[1] # NL
       /\ v[Len(v)] # NL
       /\ \A i \in 1..(Len(v) - 1) : ~(v[i] = NL /\ v[i + 1] = NL)

\* C9: encoding pairs (tags without % or newline, values without a blank line, the
\* empty value included) in the tag/value grammar and parsing the text with
\* DescIter yields the original pairs in the original order.
C9_RoundTrip ==
    (/\ parsed.op = "DescIter"
     /\ desc.kind = "enc"
     /\ \A i \in 1..Len(desc.pairs) :
            RoundTripTag(desc.pairs[i].tag) /\ RoundTripValue(desc.pairs[i].value))
    => parsed.out = desc.pairs

HasTag(ps, tag) == \E i \in 1..Len(ps) : ps[i].tag = tag

\* the value of the last pair of ps tagged `tag`
LastValue(ps, tag) ==
    ps[CHOOSE i \in 1..Len(ps) :
           ps[i].tag = tag /\ \A j \in (i + 1)..Len(ps) : ps[j].tag # tag].value

SizesNumeric(ps) ==
    \A i \in 1..Len(ps) : ps[i].tag \in {CSIZE, ISIZE} => ParseU64(ps[i].value).ok

BuiltFrom(out, ps) ==
    /\ out.ok
    /\ out.name = LastValue(ps, NAME)
    /\ out.download_size = ParseU64(LastValue(ps, CSIZE)).val
    /\ out.install_size = ParseU64(LastValue(ps, ISIZE)).val

RECURSIVE Flatten(_)
Flatten(ld) ==
    IF ld = <<>> THEN <<>>
    ELSE LET a == ld[Len(ld)]
         IN  Flatten(SubSeq(ld, 1, Len(ld) - 1))
             \o [i \in 1..Len(a.entries) |->
                    [stem |-> a.stem, entry |-> EntryTable[a.entries[i]]]]

\* the record a desc entry holds
RecordTable == [i \in DOMAIN EntryTable |-> SyncPkgFromDesc(EntryTable[i].text)]
RecordOf(entry) == RecordTable[CHOOSE i \in DOMAIN EntryTable : EntryTable[i] = entry]

\* the entry is a desc file holding a record
HoldsRecord(entry) ==
    /\ entry.etype = "file"
    /\ FileName(entry.path) = DESC
    /\ RecordOf(entry).ok

\* the entry is a desc file holding a record named n
HoldsName(entry, n) == HoldsRecord(entry) /\ RecordOf(entry).name = n

\* C5: after archives were loaded without error, every package name of a desc
\* entry is mapped to the sizes of the last entry, in load order, that holds it,
\* tagged with the RepoId of that entry's archive stem.
C5_LastWriteWins ==
    (dbres.op = "read_one_db" /\ dbres.ok) =>
        LET fl == Flatten(loaded)
        IN  \A k \in 1..Len(fl) :
                HoldsRecord(fl[k].entry) =>
                    LET n == RecordOf(fl[k].entry).name
                        last == CHOOSE j \in 1..Len(fl) :
                                    /\ HoldsName(fl[j].entry, n)
                                    /\ \A i \in (j + 1)..Len(fl) :
                                           ~HoldsName(fl[i].entry, n)
                        rec == RecordOf(fl[last].entry)
                    IN  /\ n \in DOMAIN map
                        /\ map[n].name = n
                        /\ map[n].download_size = rec.download_size
                        /\ map[n].install_size = rec.install_size
                        /\ map[n].repo = RepoFrom(fl[last].stem)

\* foo is in both archives and holds the second one's record; foo-bar, only in the
\* first archive, keeps the first one's
C5_Witness ==
    /\ dbres.op = "read_one_db" /\ dbres.ok
    /\ Len(loaded) = 2
    /\ loaded[1].stem = "core" /\ loaded[2].stem = "awild"
    /\ Foo \in DOMAIN map /\ FooBar \in DOMAIN map
    /\ map[Foo].download_size = <<"2", "0", "0">>
    /\ map[Foo].repo = [variant |-> "Custom", name |-> "awild"]
    /\ map[FooBar].repo = [variant |-> "Core"]
    /\ \E i \in 1..Len(loaded[1].entries) :
           HoldsName(EntryTable[loaded[1].entries[i]], Foo)

\* C6: when the k-th qualifying entry of an archive fails to parse, read_one_db
\* returns an error naming that entry's path, the index holds the inserts of the
\* entries before it on top of what it held before the call, and no entry after
\* it is inserted.
C6_PartialInsertsKept ==
    [][(loaded' # loaded /\ ~dbres'.ok) =>
          LET a == loaded'[Len(loaded')]
              es == [i \in 1..Len(a.entries) |-> EntryTable[a.entries[i]]]
              Qualifies(i) == es[i].etype = "file" /\ FileName(es[i].path) = DESC
              k == CHOOSE i \in 1..Len(es) :
                       /\ Qualifies(i) /\ ~RecordOf(es[i]).ok
                       /\ \A j \in 1..(i - 1) : ~(Qualifies(j) /\ ~RecordOf(es[j]).ok)
              Before(n) == {j \in 1..(k - 1) : HoldsName(es[j], n)}
              Max(S) == CHOOSE j \in S : \A i \in S : i <= j
          IN  /\ dbres'.err = "failed to parse"
              /\ dbres'.path = es[k].path
              /\ DOMAIN map \subseteq DOMAIN map'
              /\ \A j \in 1..(k - 1) : Qualifies(j) => RecordOf(es[j]).name \in DOMAIN map'
              /\ \A n \in DOMAIN map' :
                     IF Before(n) = {}
                     THEN n \in DOMAIN map /\ map'[n] = map[n]
                     ELSE map'[n] = [RecordOf(es[Max(Before(n))]) EXCEPT
                                        !.repo = RepoFrom(a.stem)]
              /\ inserted' = inserted \cup {es[j].path : j \in {i \in 1..(k - 1) : Qualifies(i)}}
      ]_vars

\* the second of three desc entries failed: the first one's insert is kept, the
\* third one's never made
C6_Witness ==
    /\ dbres.op = "read_one_db" /\ ~dbres.ok /\ dbres.err = "failed to parse"
    /\ Len(loaded) = 1
    /\ Len(loaded[1].entries) = 3
    /\ dbres.path = <<<<"b", "a", "d", "-", "1", "-", "1">>, DESC>>
    /\ DOMAIN map = {Foo}
    /\ HoldsName(EntryTable[loaded[1].entries[3]], FooBar)

\* the number of hyphens of a directory name
RECURSIVE HyphenCount(_)
HyphenCount(d) ==
    IF d = <<>> THEN 0
    ELSE (IF Head(d) = "-" THEN 1 ELSE 0) + HyphenCount(Tail(d))

\* the name of the directory holding the entry (empty for a top-level entry)
DirName(path) == IF Len(path) >= 2 THEN path[Len(path) - 1] ELSE <<>>

\* ${name}-${version}-${release}: the name is what precedes the two rightmost hyphens
Decomposes(d) == HyphenCount(d) >= 2

\* C7: the loader inserts only for a regular file named desc whose directory name
\* has at least two hyphens; an entry whose directory name has fewer causes
\* neither an insert nor an error.
C7_UndecomposableSkipped ==
    /\ \A p \in inserted : FileName(p) = DESC /\ Decomposes(DirName(p))
    /\ (dbres.op = "read_one_db" /\ ~dbres.ok /\ dbres.err = "failed to parse")
       => Decomposes(DirName(dbres.path))

(***************************************************************************)
(* download_to_disk and download_dbs                                       *)
(***************************************************************************)

\* the task of source r has its response
Responded(r) == pc[r] \notin {"unspawned", "metadata", "send"} /\ server[r] # Unreachable

IsSuccessStatus(status) == status >= 200 /\ status <= 299

\* C1: for a success (non-304) response with body B, download_to_disk returns
\* exactly B and the cache file holds exactly B when it returns.
C1_ReturnsBody ==
    \A r \in Sources :
        (/\ pc[r] = "done"
         /\ result[r].st = "Ok"
         /\ IsSuccessStatus(Resp(r).status))
        => /\ result[r].data = Resp(r).body
           /\ file[r].content = Resp(r).body

\* C2: the failure of one source's task never cancels or discards another
\* source's task: no task is aborted, and once download_dbs has returned every
\* spawned task has finished and its outcome was taken from the JoinSet.
C2_NoCancellation ==
    /\ \A r \in Sources : pc[r] \notin {"aborted", "detached"}
    /\ (dpc = "returned" /\ \E r \in Sources : pc[r] # "unspawned")
       => (doneq = <<>> /\ \A r \in Sources : pc[r] = "done")

\* C3: with a cached file of contents C and mtime T and a 304 answer,
\* download_to_disk returns exactly C, leaves the file's contents and mtime as
\* they were, and goes on to no further network call (no body chunk is read).
C3_NotModifiedReusesCache ==
    \A r \in Sources :
        (Responded(r) /\ Resp(r).status = NOT_MODIFIED /\ file[r].kind = "file")
        => /\ pc[r] \in {"open", "read", "done", "aborted"}
           /\ file[r] = CachedFile(r)
           /\ pc[r] = "done" => result[r] = TaskOk(CachedContent(r))

\* the one source that may meet any server got 304 for its cached file, returned
\* the cached bytes, and download_dbs collected them
C3_Witness ==
    /\ server["extra"] = [status |-> 304, body |-> Body("extra", 1),
                          last_modified |-> "date"]
    /\ pc["extra"] = "done"
    /\ result["extra"] = TaskOk(CachedContent("extra"))
    /\ file["extra"] = CachedFile("extra")
    /\ \E i \in 1..Len(dbs) : dbs[i] = [repo |-> RepoFrom("extra"), data |-> <<2>>]

\* C4: for a status that is neither 304 nor 2xx, download_to_disk returns an
\* error and neither creates nor truncates nor writes the cache file.
C4_OtherStatusFails ==
    \A r \in Sources :
        (/\ Responded(r)
         /\ Resp(r).status # NOT_MODIFIED
         /\ ~IsSuccessStatus(Resp(r).status))
        => /\ pc[r] \in {"done", "aborted"}
           /\ pc[r] = "done" => result[r].st = "Err"
           /\ file[r] \in FileChoices(r)

(***************************************************************************)
(* The builders: missing fields and repeated tags                          *)
(***************************************************************************)

FirstMissing(ps) ==
    IF ~HasTag(ps, NAME) THEN Err("missing package name in desc")
    ELSE IF ~HasTag(ps, VERSION) THEN Err("missing package version in desc")
    ELSE IF ~HasTag(ps, CSIZE) THEN Err("missing package download size in desc")
    ELSE Err("missing package install size in desc")

C12_AbsentSizeIsZero ==
    parsed.op = "LocalPkg::from_desc" =>
        LET ps == DescIter(desc.text)
        IN  (HasTag(ps, NAME) /\ HasTag(ps, VERSION) /\ ~HasTag(ps, SIZE))
            => /\ parsed.out.ok
               /\ parsed.out.size = <<"0">>

\* the pairs of ps before the last pair tagged `tag` that carry the same tag
HasEarlier(ps, tag) ==
    \E i, j \in 1..Len(ps) : i < j /\ ps[i].tag = tag /\ ps[j].tag = tag

\* the record SyncPkg::from_desc builds from the last occurrence of each tag
SyncPkgOfLast(ps) ==
    [ok |-> TRUE, name |-> LastValue(ps, NAME), version |-> LastValue(ps, VERSION),
     repo |-> [variant |-> "Unknown"],
     download_size |-> ParseU64(LastValue(ps, CSIZE)).val,
     install_size |-> ParseU64(LastValue(ps, ISIZE)).val]

\* the record LocalPkg::from_desc builds from the last occurrence of each tag
LocalPkgOfLast(ps) ==
    [ok |-> TRUE, name |-> LastValue(ps, NAME), version |-> LastValue(ps, VERSION),
     size |-> ParseU64(LastValue(ps, SIZE)).val]

\* C16 as claimed: with a tag repeated, the builders produce the record of the
\* last occurrences whenever those are usable (every tag present, the last size
\* values u64); earlier occurrences do not determine the outcome.
C16_EarlierOccurrencesIgnored ==
    LET ps == DescIter(desc.text)
    IN  /\ (/\ parsed.op = "SyncPkg::from_desc"
            /\ \A tag \in {NAME, VERSION, CSIZE, ISIZE} : HasTag(ps, tag)
            /\ ParseU64(LastValue(ps, CSIZE)).ok
            /\ ParseU64(LastValue(ps, ISIZE)).ok)
           => parsed.out = SyncPkgOfLast(ps)
        /\ (/\ parsed.op = "LocalPkg::from_desc"
            /\ \A tag \in {NAME, VERSION, SIZE} : HasTag(ps, tag)
            /\ ParseU64(LastValue(ps, SIZE)).ok)
           => parsed.out = LocalPkgOfLast(ps)

\* C16 amended: a record the builders produce holds, for every tag, the value of
\* the tag's last occurrence, and they produce it when every tag is present and
\* every occurrence of a size tag, not only the last, is a u64; an earlier size
\* occurrence that is not a u64 makes the builder fail.
C16_LastOccurrenceWins ==
    LET ps == DescIter(desc.text)
    IN  /\ parsed.op = "SyncPkg::from_desc" =>
              /\ parsed.out.ok => parsed.out = SyncPkgOfLast(ps)
              /\ parsed.out.ok <=>
                     /\ \A tag \in {NAME, VERSION, CSIZE, ISIZE} : HasTag(ps, tag)
                     /\ SizesNumeric(ps)
        /\ parsed.op = "LocalPkg::from_desc" =>
              /\ parsed.out.ok => parsed.out = LocalPkgOfLast(ps)
              /\ parsed.out.ok <=>
                     /\ \A tag \in {NAME, VERSION, SIZE} : HasTag(ps, tag)
                     /\ \A i \in 1..Len(ps) :
                            ps[i].tag = SIZE => ParseU64(ps[i].value).ok

\* SyncPkg::from_desc built a record whose NAME tag came twice with two values
C16_Witness ==
    /\ parsed.op = "SyncPkg::from_desc"
    /\ parsed.out.ok
    /\ LET ps == DescIter(desc.text)
       IN  /\ ps = desc.pairs
           /\ HasEarlier(ps, NAME)
           /\ ps[1].tag = NAME
           /\ ps[1].value # LastValue(ps, NAME)
           /\ parsed.out.name = LastValue(ps, NAME)


(***************************************************************************)
(* local_package_size                                                      *)
(***************************************************************************)

\* the directory entry is one local_package_size opens, and its desc is the
\* desc of package n
IsPackageDir(entry, n) ==
    /\ entry.is_dir
    /\ StartsWith(entry.name, n)
    /\ entry.desc # NoneOpt
    /\ LET ps == DescIter(entry.desc[1])
       IN  HasTag(ps, NAME) /\ LastValue(ps, NAME) = n

\* the installed size the desc of the entry states: its SIZE, 0 without one
StatedSize(entry) ==
    LET ps == DescIter(entry.desc[1])
    IN  IF HasTag(ps, SIZE) THEN ParseU64(LastValue(ps, SIZE)) ELSE [ok |-> TRUE, val |-> <<"0">>]

\* C13: a directory whose desc NAME differs from pkgname contributes nothing: a
\* returned Ok(size) is the SIZE (0 without one) of a desc whose NAME equals
\* pkgname, for every set of directories and every order of tags in a desc.
C13_SizeOfNamedPackage ==
    (lsize.op = "local_package_size" /\ lsize.out.ok) =>
        \E i \in 1..Len(localdb.dirents) :
            /\ IsPackageDir(localdb.dirents[i], localdb.pkgname)
            /\ StatedSize(localdb.dirents[i]).ok
            /\ lsize.out.size = StatedSize(localdb.dirents[i]).val


(***************************************************************************)
(* read_one_db: the choice of the decoder                                  *)
(***************************************************************************)

\* C14: for a file of any length the decoder is chosen from the leading bytes
\* alone: first four bytes 28 B5 2F FD select zstd, otherwise first two bytes
\* 1F 8B select gzip, and every other file is read as an uncompressed tar stream
\* rather than rejected.
C14_DecoderFromLeadingBytes ==
    dbres.op = "read_one_db" =>
        LET h == dbres.head
        IN  /\ dbres.decoder =
                   IF Len(h) >= 4 /\ SubSeq(h, 1, 4) = ZSTD_MAGIC THEN "zstd"
                   ELSE IF Len(h) >= 2 /\ SubSeq(h, 1, 2) = GZIP_MAGIC THEN "gzip"
                   ELSE "none"
            /\ ~dbres.ok => dbres.err = "failed to parse"


(***************************************************************************)
(* download_to_disk: the modification time of the cache file               *)
(***************************************************************************)

\* the response of source r sends its task down the download branch
Downloads(r) ==
    Responded(r) /\ ~IsErrorStatus(Resp(r).status) /\ Resp(r).status # NOT_MODIFIED

\* C15: after a download whose response carries a Last-Modified header the file's
\* mtime is that header's time (or, when setting it failed, the time of the
\* write), and the step is best-effort: for every Last-Modified value the task
\* is not aborted by it, neither the task nor download_dbs panics, and a task
\* that got past the flush returns Ok.
C15_MtimeBestEffort ==
    /\ ret.st # "Panic"
    /\ \A r \in Sources :
           (Downloads(r) /\ Resp(r).last_modified # "absent") =>
               /\ pc[r] = "done" => result[r].st \in {"Ok", "Err"}
               /\ (pc[r] = "done" /\ result[r].st = "Ok"
                   /\ Resp(r).last_modified \in {"date", "old_date"})
                  => file[r].mtime \in {LastModified, Now}


(***************************************************************************)
(* download_dbs: what Ok(dbs) holds                                        *)
(***************************************************************************)

\* C18: whenever download_dbs returns Ok, under every completion order, the
\* result has exactly one entry per configured source, the entry pairs the
\* source's RepoId with the bytes that source's own task returned, and every
\* spawned task has terminated and been joined; and a step that changes the
\* cache file of a source is a step of that source's task alone.
C18_OkHoldsEverySource ==
    /\ [](ret.st = "Ok" =>
             /\ Len(ret.dbs) = Len(SYNC_DBS)
             /\ \A r \in Sources :
                    /\ pc[r] = "done"
                    /\ \E i \in 1..Len(ret.dbs) :
                           /\ ret.dbs[i] = [repo |-> RepoFrom(r), data |-> result[r].data]
                           /\ \A j \in 1..Len(ret.dbs) :
                                  ret.dbs[j].repo = RepoFrom(r) => j = i
             /\ doneq = <<>>)
    /\ [][\A r \in Sources :
              file'[r] # file[r] =>
                  /\ pc[r] \in {"create", "write", "flush", "set_mtime", "detached"}
                  /\ pc'[r] # pc[r]
                  /\ \A q \in Sources \ {r} : pc'[q] = pc[q] /\ file'[q] = file[q]]_vars

\* download_dbs returned Ok with the entries in completion order, the last
\* configured source first, each with its own bytes
C18_Witness ==
    /\ ret.st = "Ok"
    /\ ret.dbs[1] = [repo |-> RepoFrom("awild"), data |-> CachedContent("awild")]
    /\ ret.dbs[3] = [repo |-> RepoFrom("core"), data |-> CachedContent("core")]
    /\ \A r \in Sources : pc[r] = "done"


(***************************************************************************)
(* The cache file across runs                                              *)
(***************************************************************************)

\* C17: over any sequence of runs for one source, the bytes a run returns on a
\* 304 are the complete body of an earlier successful download or the cache
\* content that was there before the first run: a failed or interrupted download
\* leaves no truncated or partial file that a later run returns as cached data.
C17_CacheHoldsCompleteBody ==
    \A r \in Sources :
        (/\ pc[r] = "done"
         /\ result[r].st = "Ok"
         /\ server[r] # Unreachable
         /\ Resp(r).status = NOT_MODIFIED)
        => result[r].data \in good[r]


====
